---- MODULE Spec2Model ----
(***************************************************************************)
(* Model of Rolling.py: a Flask application with one route ("/") guarded   *)
(* by a shared-secret header, which resolves the AWS caller identity,      *)
(* enumerates four kinds of resources and renders them as four tables.     *)
(*                                                                         *)
(* Python values are tagged records [t |-> tag, v |-> payload] so that     *)
(* dict.get, isinstance and iteration can be modelled on values of any     *)
(* shape.  A raised exception is the value Raise(type).                    *)
(***************************************************************************)
EXTENDS Integers, Sequences, FiniteSets, TLC

(***************************************************************************)
(* Bounds of the model.                                                    *)
(***************************************************************************)
MaxExtraPages == 1  \* pages beyond the first of each operation, in total
MaxItems == 2       \* resources the account holds, over all four kinds
MaxRes == 1         \* reservations on one page of describe_instances
MaxResHeld == 2     \* the same, where only the instance aggregation runs
MaxKeyLen == 1      \* characters of the configured ROLLING_API_KEY
MaxHeaderLen == 2   \* characters of the X-API-Key header of a request
MaxPathLen == 2     \* keys of a result_keys path given to _paginate

(***************************************************************************)
(* Python values.                                                          *)
(***************************************************************************)
PyNone == [t |-> "none"]
Str(s) == [t |-> "str", v |-> s]
List(xs) == [t |-> "list", v |-> xs]
Dict(f) == [t |-> "dict", v |-> f]
Tok(i) == [t |-> "token", v |-> i]
Raise(type) == [t |-> "raise", v |-> type]

EmptyDict == Dict(<<>>)
EmptyList == List(<<>>)

\* d.get(key, default): AttributeError unless d is a dict; a key that is
\* present yields its value (whatever it is, None included).
Get(d, key, default) ==
    IF d.t = "raise" THEN d
    ELSE IF d.t # "dict" THEN Raise("AttributeError")
    ELSE IF key \in DOMAIN d.v THEN d.v[key]
    ELSE default

\* The items a for-loop draws from a value: a list gives its elements, a
\* dict its keys, a string its characters (strings of the model have at
\* most one character); None and other scalars are not iterable.
Iterate(x) ==
    IF x.t = "raise" THEN x
    ELSE IF x.t = "list" THEN x
    ELSE IF x.t = "dict"
      THEN IF DOMAIN x.v = {} THEN EmptyList
           ELSE List(<<Str(CHOOSE k \in DOMAIN x.v : TRUE)>>)
    ELSE IF x.t = "str" THEN (IF x.v = "" THEN EmptyList ELSE List(<<x>>))
    ELSE Raise("TypeError")

\* The first exception among a sequence of evaluation results, if any.
FirstRaise(rs) ==
    IF \E i \in 1..Len(rs) : rs[i].t = "raise"
    THEN rs[CHOOSE i \in 1..Len(rs) :
              /\ rs[i].t = "raise"
              /\ \A j \in 1..(i - 1) : rs[j].t # "raise"]
    ELSE PyNone

RECURSIVE Concat(_)
Concat(ls) ==
    IF ls = <<>> THEN <<>> ELSE Head(ls).v \o Concat(Tail(ls))

SeqsUpTo(S, n) == UNION {[1..k -> S] : k \in 0..n}
NonEmptySeqsUpTo(S, n) == UNION {[1..k -> S] : k \in 1..n}

(***************************************************************************)
(* Module-level configuration and constants of Rolling.py.                 *)
(***************************************************************************)
REGION == "us-east-1"
SETUP_HTML == [kind |-> "setup", title |-> "AWS Setup Needed"]

\* Characters are code points; 97 is "a", 233 is a non-ASCII character.
Chars == {97, 233}
IsAscii(s) == \A i \in 1..Len(s) : s[i] < 128

\* os.getenv("ROLLING_API_KEY"): unset (None) or a string.
KeyUnset == [set |-> FALSE, v |-> <<>>]
ConfiguredKeys ==
    {KeyUnset} \cup {[set |-> TRUE, v |-> s] : s \in SeqsUpTo(Chars, MaxKeyLen)}

\* The X-API-Key header of a request: absent or a string.
HeaderAbsent == [present |-> FALSE, v |-> <<>>]
Headers ==
    {HeaderAbsent} \cup
    {[present |-> TRUE, v |-> s] : s \in SeqsUpTo(Chars, MaxHeaderLen)}

\* secrets.compare_digest on two str arguments: TypeError when either holds
\* a non-ASCII character, otherwise equality.
compare_digest(a, b) ==
    IF ~IsAscii(a) \/ ~IsAscii(b) THEN Raise("TypeError")
    ELSE [t |-> "bool", v |-> (a = b)]

\* Variant: the secret counts as configured unless it is None.
require_api_key_NoneOnly(key, hdr) ==
    IF ~key.set THEN [status |-> 503, description |-> "ROLLING_API_KEY is not set."]
    ELSE LET provided == IF hdr.present THEN hdr.v ELSE <<>>
             cmp == compare_digest(provided, key.v)
         IN IF cmp.t = "raise" THEN [status |-> 500, description |-> "Internal Server Error"]
            ELSE IF ~cmp.v THEN [status |-> 401, description |-> "Unauthorized."]
            ELSE [status |-> 0, description |-> "pass"]

\* The outcome of the before_request hook: "pass" or the status it ends with.
require_api_key(key, hdr) ==
    IF ~key.set \/ key.v = <<>> THEN [status |-> 503, description |-> "ROLLING_API_KEY is not set."]
    ELSE LET provided == IF hdr.present THEN hdr.v ELSE <<>>
             cmp == compare_digest(provided, key.v)
         IN IF cmp.t = "raise" THEN [status |-> 500, description |-> "Internal Server Error"]
            ELSE IF ~cmp.v THEN [status |-> 401, description |-> "Unauthorized."]
            ELSE [status |-> 0, description |-> "pass"]

\* except-clause matching: NoCredentialsError derives from BotoCoreError.
Catches(type, handlers) ==
    \/ type \in handlers
    \/ type = "NoCredentialsError" /\ "BotoCoreError" \in handlers

(***************************************************************************)
(* _paginate: the handling of one page of the paginator.                   *)
(***************************************************************************)
RECURSIVE Navigate(_, _)
Navigate(data, result_keys) ==
    IF result_keys = <<>> THEN data
    ELSE Navigate(Get(data, Head(result_keys), EmptyList), Tail(result_keys))

\* What one page contributes: the items yielded, whether the debug
\* diagnostic is logged, and the exception raised, if any.
PaginatePage(page, result_keys) ==
    LET data == Navigate(page, result_keys)
    IN IF data.t = "raise"
         THEN [raised |-> data.v, yielded |-> <<>>, debug |-> FALSE]
       ELSE IF data.t = "list"
         THEN [raised |-> "none", yielded |-> data.v, debug |-> FALSE]
       ELSE [raised |-> "none", yielded |-> <<>>, debug |-> TRUE]

(***************************************************************************)
(* Field projections of the four aggregations.                             *)
(***************************************************************************)
Project(fields, values) ==
    IF FirstRaise(values).t = "raise" THEN FirstRaise(values)
    ELSE Dict([k \in {fields[i] : i \in 1..Len(fields)} |->
                 values[CHOOSE i \in 1..Len(fields) : fields[i] = k]])

InstanceRecord(instance) ==
    Project(<<"ID", "State", "Type", "Public IP">>,
            << Get(instance, "InstanceId", Str("N/A")),
               Get(Get(instance, "State", EmptyDict), "Name", Str("unknown")),
               Get(instance, "InstanceType", Str("unknown")),
               Get(instance, "PublicIpAddress", Str("N/A")) >>)

VpcRecord(vpc) ==
    Project(<<"VPC ID", "CIDR">>,
            << Get(vpc, "VpcId", Str("N/A")), Get(vpc, "CidrBlock", Str("N/A")) >>)

LoadBalancerRecord(load_balancer) ==
    Project(<<"LB Name", "DNS Name">>,
            << Get(load_balancer, "LoadBalancerName", Str("N/A")),
               Get(load_balancer, "DNSName", Str("N/A")) >>)

AmiRecord(image) ==
    Project(<<"AMI ID", "Name">>,
            << Get(image, "ImageId", Str("N/A")), Get(image, "Name", Str("N/A")) >>)

Collectors ==
    {"_collect_instances", "_collect_vpcs", "_collect_load_balancers", "_collect_amis"}

RecordOf(fn, raw) ==
    IF fn = "_collect_instances" THEN InstanceRecord(raw)
    ELSE IF fn = "_collect_vpcs" THEN VpcRecord(raw)
    ELSE IF fn = "_collect_load_balancers" THEN LoadBalancerRecord(raw)
    ELSE AmiRecord(raw)

\* The results of a loop body over the items, in order: the list of the
\* results, or the first exception.
Collected(rs) ==
    IF FirstRaise(rs).t = "raise" THEN FirstRaise(rs) ELSE List(rs)

\* The projection of a collector applied to every item.
MapItems(fn, xs) == Collected([i \in 1..Len(xs) |-> RecordOf(fn, xs[i])])

\* Variant: only the first instance of a reservation is listed.
ReservationRecords_FirstOnly(reservation) ==
    LET it == Iterate(Get(reservation, "Instances", EmptyList))
    IN IF it.t = "raise" THEN it
       ELSE MapItems("_collect_instances",
                     SubSeq(it.v, 1, IF Len(it.v) > 0 THEN 1 ELSE 0))

\* The inner loop of _collect_instances over one reservation.
ReservationRecords(reservation) ==
    LET it == Iterate(Get(reservation, "Instances", EmptyList))
    IN IF it.t = "raise" THEN it ELSE MapItems("_collect_instances", it.v)

\* The records one page adds to the aggregation's list, per operation.
PageRecords(operation, yielded) ==
    IF operation = "describe_instances"
      THEN LET rs == Collected([i \in 1..Len(yielded) |-> ReservationRecords(yielded[i])])
           IN IF rs.t = "raise" THEN rs ELSE List(Concat(rs.v))
    ELSE IF operation = "describe_load_balancers"
      THEN MapItems("_collect_load_balancers", yielded)
    ELSE MapItems("_collect_amis", yielded)

\* The list comprehension of _collect_vpcs over the single response.
VpcRecords(vpcs_resp) ==
    LET it == Iterate(Get(vpcs_resp, "Vpcs", EmptyList))
    IN IF it.t = "raise" THEN it ELSE MapItems("_collect_vpcs", it.v)

ResultKeys(operation) ==
    IF operation = "describe_instances" THEN <<"Reservations">>
    ELSE IF operation = "describe_load_balancers" THEN <<"LoadBalancers">>
    ELSE <<"Images">>

FailureMessage(operation) ==
    IF operation = "describe_instances" THEN "Failed to collect EC2 instances"
    ELSE IF operation = "describe_vpcs" THEN "Failed to collect VPCs"
    ELSE IF operation = "describe_load_balancers" THEN "Failed to collect load balancers"
    ELSE "Failed to collect AMIs"

(***************************************************************************)
(* The provider (AWS, reached through boto3).  Its state is observed by    *)
(* the program only through the calls it makes: provider[op] is fixed by   *)
(* the environment when the operation is first called and stays the same   *)
(* until the response is sent.                                             *)
(***************************************************************************)
PaginatedOps == {"describe_instances", "describe_load_balancers", "describe_images"}
Ops == {"get_caller_identity", "describe_vpcs"} \cup PaginatedOps

Unobserved == [t |-> "unobserved"]

\* The key of a response that holds the page's list, and the key that holds
\* the cursor of the next page (token style or marker style).
ListKey(operation) ==
    IF operation = "describe_instances" THEN "Reservations"
    ELSE IF operation = "describe_vpcs" THEN "Vpcs"
    ELSE IF operation = "describe_load_balancers" THEN "LoadBalancers"
    ELSE "Images"

OutputToken(operation) ==
    IF operation = "describe_load_balancers" THEN "NextMarker" ELSE "NextToken"

Name(prefix, p, i) == Str(prefix \o ToString(p) \o "-" \o ToString(i))

\* Raw records as the provider returns them.  Optional fields (the public
\* address of an instance, the name of an image) are omitted on some.
RawInstance(p, r, i) ==
    LET base == ("InstanceId" :> Name("i-", p, 10 * r + i))
                @@ ("State" :> Dict("Name" :> Str("running")))
                @@ ("InstanceType" :> Str("t2.micro"))
    IN Dict(IF (p + r + i) % 2 = 1
            THEN base @@ ("PublicIpAddress" :> Name("ip-", p, 10 * r + i))
            ELSE base)

RawItem(operation, p, i) ==
    IF operation = "describe_vpcs"
      THEN Dict(("VpcId" :> Name("vpc-", p, i)) @@ ("CidrBlock" :> Name("cidr-", p, i)))
    ELSE IF operation = "describe_load_balancers"
      THEN Dict(("LoadBalancerName" :> Name("lb-", p, i)) @@ ("DNSName" :> Name("dns-", p, i)))
    ELSE Dict(IF (p + i) % 2 = 0
              THEN ("ImageId" :> Name("ami-", p, i)) @@ ("Name" :> Name("img-", p, i))
              ELSE ("ImageId" :> Name("ami-", p, i)))

\* A response: the page's list and, on every page but the last, a cursor.
Response(operation, p, n, xs) ==
    Dict(IF p < n
         THEN (ListKey(operation) :> List(xs)) @@ (OutputToken(operation) :> Tok(p + 1))
         ELSE (ListKey(operation) :> List(xs)))

ItemPages(operation, shape) ==
    [p \in 1..Len(shape) |->
       Response(operation, p, Len(shape),
                [i \in 1..shape[p] |-> RawItem(operation, p, i)])]

InstancePages(shape) ==
    [p \in 1..Len(shape) |->
       Response("describe_instances", p, Len(shape),
                [r \in 1..Len(shape[p]) |->
                   Dict("Instances" :>
                          List([i \in 1..shape[p][r] |-> RawInstance(p, r, i)]))])]

Whoamis ==
    { Dict(("Account" :> Str("123456789012")) @@ ("Arn" :> Str("arn:aws:iam::123456789012:user/dev"))),
      EmptyDict }

RECURSIVE Sum(_)
Sum(ns) == IF ns = <<>> THEN 0 ELSE Head(ns) + Sum(Tail(ns))

\* Sequences of n item counts that add up to at most b.
RECURSIVE Counts(_, _)
Counts(n, b) ==
    IF n = 0 THEN {<<>>}
    ELSE UNION {{<<k>> \o rest : rest \in Counts(n - 1, b - k)} : k \in 0..b}

\* Sequences of n pages of reservations holding at most b instances.
RECURSIVE ReservationPages(_, _)
ReservationPages(n, b) ==
    IF n = 0 THEN {<<>>}
    ELSE UNION {{<<page>> \o rest : rest \in ReservationPages(n - 1, b - Sum(page))} :
                  page \in UNION {Counts(r, b) : r \in 0..MaxRes}}

\* The same with at most `res` reservations on a page.
RECURSIVE ReservationPagesOf(_, _, _)
ReservationPagesOf(n, b, res) ==
    IF n = 0 THEN {<<>>}
    ELSE UNION {{<<page>> \o rest : rest \in ReservationPagesOf(n - 1, b - Sum(page), res)} :
                  page \in UNION {Counts(r, b) : r \in 0..res}}

\* The states the provider may hold for an operation: at most `pages` pages
\* beyond the first and at most `n` resources.
ProviderData(operation, pages, n) ==
    IF operation = "get_caller_identity"
      THEN {[t |-> "sts", creds |-> c, whoami |-> w] :
              c \in {"absent", "invalid", "valid"}, w \in Whoamis}
    ELSE IF operation = "describe_instances"
      THEN {[t |-> "pages", v |-> InstancePages(sh)] :
              sh \in UNION {ReservationPages(k, n) : k \in 1..(1 + pages)}}
    ELSE {[t |-> "pages", v |-> ItemPages(operation, sh)] :
              sh \in UNION {Counts(k, n) : k \in 1..(1 + pages)}}

\* The size of what the provider holds for an operation.
ExtraPages(d) == IF d.t = "pages" THEN Len(d.v) - 1 ELSE 0

RECURSIVE Resources(_, _)
Resources(key, xs) ==
    IF xs = <<>> THEN 0
    ELSE (IF key = "Reservations"
          THEN Resources("Instances", Head(xs).v[key].v)
          ELSE Len(Head(xs).v[key].v))
         + Resources(key, Tail(xs))

ResourcesOf(operation, d) ==
    IF d.t = "pages" THEN Resources(ListKey(operation), d.v) ELSE 0

\* A call either returns or fails with a service error (ClientError) or a
\* transport error (BotoCoreError).
ProviderFaults == {"none", "ClientError", "BotoCoreError"}

\* The response of the provider to a call carrying the given cursor.
ResponseFor(d, token) == IF token.t = "token" THEN d.v[token.v] ELSE d.v[1]

\* Variant: only the token-style cursor is followed.
NextCursor_TokenOnly(operation, page) ==
    LET tk == Get(page, "NextToken", PyNone)
    IN IF tk.t = "token" THEN tk ELSE PyNone

\* The cursor the paginator sends with its next call; none ends the iteration.
NextCursor(operation, page) ==
    LET tk == Get(page, OutputToken(operation), PyNone)
    IN IF tk.t = "token" THEN tk ELSE PyNone

(***************************************************************************)
(* State.                                                                  *)
(***************************************************************************)
VARIABLES
    API_KEY,      \* module-level: the configured shared secret
    provider,     \* provider-side state, per operation (see above)
    pc,           \* position of the request being served
    header,       \* X-API-Key header of the request being served
    account, arn, \* home: the identity resolved by _fetch_identity
    cursor,       \* paginator: the cursor to send with the next call
    items,        \* _collect_*: the list being built
    instances, vpc_data, lb_data, ami_data,   \* home: the four results
    raised,       \* the exception propagating out of an aggregation
    response,     \* the response of the request
    log,          \* records logged while serving the request
    calls,        \* provider calls issued while serving the request
    eval,         \* a function of the program applied to arguments on its own
    outage,       \* provider-side availability: which calls fail
    served        \* an earlier request and the response it was given

vars == << API_KEY, provider, pc, header, account, arn, cursor, items,
           instances, vpc_data, lb_data, ami_data, raised, response, log, calls,
           eval, outage, served >>

results == << instances, vpc_data, lb_data, ami_data >>

NoResponse == [status |-> 0, body |-> [kind |-> "none"]]
\* An exception in flight: its class and the provider operation whose call
\* (or whose response's handling) raised it.
NoException == [type |-> "none", op |-> "none"]
NoEval == [fn |-> "none"]
NothingServed == [header |-> HeaderAbsent, response |-> NoResponse]

\* Availability of the provider.  Transient: any call may fail, in either
\* way.  Otherwise availability is part of the provider-side state: no call
\* fails, or the call of one operation for one page fails every time.
Transient == [t |-> "transient"]
NoOutage == [t |-> "none"]
Cursors(operation) ==
    IF operation \in PaginatedOps
    THEN {PyNone} \cup {Tok(p) : p \in 2..(1 + MaxExtraPages)}
    ELSE {PyNone}
Outages ==
    {NoOutage} \cup
    UNION {{[t |-> "outage", op |-> op, token |-> tk, fault |-> f] :
              tk \in Cursors(op), f \in ProviderFaults \ {"none"}} : op \in Ops}

\* The ways the call of an operation with a cursor may go.
FaultsAt(operation, token) ==
    IF outage = Transient THEN ProviderFaults
    ELSE IF outage # NoOutage /\ outage.op = operation /\ outage.token = token
      THEN {outage.fault}
    ELSE {"none"}

\* Variant: the image aggregation deregisters the images it lists.
Call_Deregistering(operation, token, outcome) ==
    [op |-> IF operation = "describe_images" THEN "deregister_image" ELSE operation,
     token |-> token, outcome |-> outcome]

\* A provider call as issued: the operation, the cursor sent, and whether
\* the call returned ("ok") or the error it raised.
Call(operation, token, outcome) ==
    [op |-> operation, token |-> token, outcome |-> outcome]

SecurityHeaders ==
    {"Content-Security-Policy", "Referrer-Policy", "X-Content-Type-Options",
     "X-Frame-Options", "Permissions-Policy"}

\* Every response passes through add_security_headers.
MkResponse(status, body) ==
    [status |-> status, body |-> body, headers |-> SecurityHeaders]

\* flask.abort(status, description), and the page Flask renders for an
\* exception no handler catches.
Abort(status, description) ==
    MkResponse(status, [kind |-> "error", message |-> description])
UncaughtPage == Abort(500, "Internal Server Error")

Init ==
    /\ API_KEY \in ConfiguredKeys
    /\ provider = [op \in Ops |-> Unobserved]
    /\ pc = "idle"
    /\ header = HeaderAbsent
    /\ account = PyNone /\ arn = PyNone
    /\ cursor = PyNone
    /\ items = <<>>
    /\ instances = PyNone /\ vpc_data = PyNone /\ lb_data = PyNone /\ ami_data = PyNone
    /\ raised = NoException
    /\ response = NoResponse
    /\ log = <<>>
    /\ calls = <<>>
    /\ eval = NoEval
    /\ outage = Transient
    /\ served = NothingServed

RECURSIVE SumOver(_, _)
SumOver(S, f) ==
    IF S = {} THEN 0
    ELSE LET x == CHOOSE y \in S : TRUE IN f[x] + SumOver(S \ {x}, f)

\* The provider-side state a call to the operation may meet: the state it
\* was seen in before or, at the first call, any state within the bounds.
Observe(operation) ==
    IF provider[operation] # Unobserved THEN {provider[operation]}
    ELSE ProviderData(operation,
           MaxExtraPages - SumOver(Ops, [o \in Ops |-> ExtraPages(provider[o])]),
           MaxItems - SumOver(Ops, [o \in Ops |-> ResourcesOf(o, provider[o])]))

(***************************************************************************)
(* A GET / arrives.                                                        *)
(***************************************************************************)
Request(h) ==
    /\ pc = "idle"
    /\ pc' = "before_request"
    /\ header' = h
    /\ UNCHANGED << eval, outage, served, API_KEY, provider, account, arn, cursor, items, results,
                    raised, response, log, calls >>

(***************************************************************************)
(* before_request hook.                                                    *)
(***************************************************************************)
\* Variant: the identity is asked for before the key is checked.
RequireApiKey_AfterIdentity ==
    /\ pc = "before_request"
    /\ calls' = Append(calls, Call("get_caller_identity", PyNone, "ok"))
    /\ LET r == require_api_key(API_KEY, header)
       IN IF r.status = 0
          THEN pc' = "instances" /\ UNCHANGED response
          ELSE pc' = "done" /\ response' = Abort(r.status, r.description)
    /\ UNCHANGED << eval, outage, served, API_KEY, provider, header, account, arn,
                    cursor, items, results, raised, log >>

RequireApiKey ==
    /\ pc = "before_request"
    /\ LET r == require_api_key(API_KEY, header)
       IN IF r.status = 0
          THEN pc' = "home" /\ UNCHANGED response
          ELSE pc' = "done" /\ response' = Abort(r.status, r.description)
    /\ UNCHANGED << eval, outage, served, API_KEY, provider, header, account, arn, cursor, items,
                    results, raised, log, calls >>

(***************************************************************************)
(* home, first try block: _fetch_identity.                                 *)
(***************************************************************************)
\* Variant: only the no-credentials error is caught around _fetch_identity.
IdentityHandlers_NoCredentialsOnly == {"NoCredentialsError"}

\* The exceptions the two try blocks of home catch.
IdentityHandlers == {"NoCredentialsError", "ClientError", "BotoCoreError"}
AggregationHandlers == {"BotoCoreError", "ClientError"}

\* sts_client.get_caller_identity(): the response, or the exception raised.
get_caller_identity(d, fault) ==
    IF d.creds = "absent" THEN Raise("NoCredentialsError")
    ELSE IF d.creds = "invalid" THEN Raise("ClientError")
    ELSE IF fault # "none" THEN Raise(fault)
    ELSE d.whoami

\* _fetch_identity: the pair (account, arn), or the exception raised.
fetch_identity(whoami) ==
    LET pair == << Get(whoami, "Account", Str("unknown")),
                   Get(whoami, "Arn", Str("unknown")) >>
    IN IF FirstRaise(pair).t = "raise" THEN FirstRaise(pair) ELSE List(pair)

FetchIdentity ==
    /\ pc = "home"
    /\ \E d \in Observe("get_caller_identity"), f \in FaultsAt("get_caller_identity", PyNone) :
         LET whoami == get_caller_identity(d, f)
             id == fetch_identity(whoami)
         IN /\ provider' = [provider EXCEPT !["get_caller_identity"] = d]
            /\ calls' = Append(calls, Call("get_caller_identity", PyNone,
                                           IF whoami.t = "raise" THEN whoami.v ELSE "ok"))
            /\ IF id.t = "raise"
               THEN /\ pc' = "done"
                    /\ response' =
                         IF Catches(id.v, IdentityHandlers)
                         THEN MkResponse(200, SETUP_HTML)
                         ELSE UncaughtPage
                    /\ UNCHANGED << account, arn >>
               ELSE /\ pc' = "instances"
                    /\ account' = id.v[1]
                    /\ arn' = id.v[2]
                    /\ UNCHANGED response
    /\ UNCHANGED << eval, outage, served, API_KEY, header, cursor, items, results, raised, log >>

(***************************************************************************)
(* home, second try block: the four aggregations, one provider call per    *)
(* step.                                                                   *)
(***************************************************************************)
ErrorRecord(operation, exc) ==
    [level |-> "ERROR", msg |-> FailureMessage(operation), exc_info |-> exc]
DebugRecord(operation) ==
    [level |-> "DEBUG", msg |-> "Unexpected paginator data shape",
     exc_info |-> [type |-> "none", op |-> operation]]

\* One turn of the loop over paginator.paginate(...) in _paginate together
\* with the consumer's loop body: the call's fault or the page's records.
PageOutcome(operation, d, fault) ==
    IF fault # "none"
    THEN [kind |-> "raised", exc |-> [type |-> fault, op |-> operation], fault |-> fault,
          records |-> <<>>, debug |-> FALSE, next |-> PyNone]
    ELSE LET page == ResponseFor(d, cursor)
             pp == PaginatePage(page, ResultKeys(operation))
             recs == IF pp.raised # "none" THEN Raise(pp.raised)
                     ELSE PageRecords(operation, pp.yielded)
             next == NextCursor(operation, page)
         IN IF recs.t = "raise"
            THEN [kind |-> "raised", exc |-> [type |-> recs.v, op |-> operation], fault |-> "ok",
                  records |-> <<>>, debug |-> pp.debug, next |-> PyNone]
            ELSE [kind |-> IF next.t = "token" THEN "more" ELSE "finished",
                  exc |-> NoException, fault |-> "ok",
                  records |-> recs.v, debug |-> pp.debug, next |-> next]

\* The except clause of an aggregation: provider errors are logged, then
\* re-raised; any other exception passes through unlogged.
LogOf(operation, o) ==
    (IF o.debug THEN <<DebugRecord(operation)>> ELSE <<>>)
    \o (IF o.kind = "raised" /\ Catches(o.exc.type, {"BotoCoreError", "ClientError"})
        THEN <<ErrorRecord(operation, o.exc)>> ELSE <<>>)

\* Variant: a failed aggregation is skipped and the next one runs.
Advance_Skipping(operation, d, o, nextpc) ==
    /\ provider' = [provider EXCEPT ![operation] = d]
    /\ calls' = Append(calls, Call(operation, cursor, o.fault))
    /\ log' = log \o LogOf(operation, o)
    /\ raised' = NoException
    /\ cursor' = o.next
    /\ items' = IF o.kind = "more" THEN items \o o.records ELSE <<>>
    /\ pc' = IF o.kind = "more" THEN pc ELSE nextpc
    /\ UNCHANGED << eval, outage, served, API_KEY, header, account, arn, response >>

\* Variant: a failed call is followed by a fresh attempt of the aggregation.
Advance_Retry(operation, d, o, nextpc) ==
    /\ provider' = [provider EXCEPT ![operation] = d]
    /\ calls' = Append(calls, Call(operation, cursor, o.fault))
    /\ log' = log \o LogOf(operation, o)
    /\ raised' = NoException
    /\ cursor' = o.next
    /\ items' = IF o.kind = "more" THEN items \o o.records ELSE <<>>
    /\ pc' = IF o.kind = "finished" THEN nextpc ELSE pc
    /\ UNCHANGED << eval, outage, served, API_KEY, header, account, arn, response >>

\* What a step of a paginated aggregation does to everything but its result.
Advance(operation, d, o, nextpc) ==
    /\ provider' = [provider EXCEPT ![operation] = d]
    /\ calls' = Append(calls, Call(operation, cursor, o.fault))
    /\ log' = log \o LogOf(operation, o)
    /\ raised' = o.exc
    /\ cursor' = o.next
    /\ items' = IF o.kind = "more" THEN items \o o.records ELSE <<>>
    /\ pc' = IF o.kind = "raised" THEN "home_except"
             ELSE IF o.kind = "more" THEN pc ELSE nextpc
    /\ UNCHANGED << eval, outage, served, API_KEY, header, account, arn, response >>

\* Variant: the list is kept between requests and each request adds to it.
Returned_Accumulating(o, current) ==
    IF o.kind = "finished"
    THEN List((IF current = PyNone THEN <<>> ELSE current.v) \o items \o o.records)
    ELSE current

\* Variant: the except clause returns what was gathered before the failure.
Returned_Partial(o, current) ==
    IF o.kind # "more" THEN List(items \o o.records) ELSE current

\* The value the aggregation returns to home, once it returns.
Returned(o, current) ==
    IF o.kind = "finished" THEN List(items \o o.records) ELSE current

CollectInstances ==
    /\ pc = "instances"
    /\ \E d \in Observe("describe_instances"), f \in FaultsAt("describe_instances", cursor) :
         LET o == PageOutcome("describe_instances", d, f)
         IN /\ Advance("describe_instances", d, o, "vpcs")
            /\ instances' = Returned(o, instances)
    /\ UNCHANGED << vpc_data, lb_data, ami_data >>

\* _collect_vpcs: a single describe_vpcs call, no paginator.
VpcOutcome(d, fault) ==
    IF fault # "none"
    THEN [kind |-> "raised", exc |-> [type |-> fault, op |-> "describe_vpcs"], fault |-> fault,
          records |-> <<>>, debug |-> FALSE, next |-> PyNone]
    ELSE LET recs == VpcRecords(ResponseFor(d, PyNone))
         IN IF recs.t = "raise"
            THEN [kind |-> "raised", exc |-> [type |-> recs.v, op |-> "describe_vpcs"], fault |-> "ok",
                  records |-> <<>>, debug |-> FALSE, next |-> PyNone]
            ELSE [kind |-> "finished", exc |-> NoException, fault |-> "ok",
                  records |-> recs.v, debug |-> FALSE, next |-> PyNone]

CollectVpcs ==
    /\ pc = "vpcs"
    /\ \E d \in Observe("describe_vpcs"), f \in FaultsAt("describe_vpcs", PyNone) :
         LET o == VpcOutcome(d, f)
         IN /\ Advance("describe_vpcs", d, o, "lbs")
            /\ vpc_data' = Returned(o, vpc_data)
    /\ UNCHANGED << instances, lb_data, ami_data >>

CollectLoadBalancers ==
    /\ pc = "lbs"
    /\ \E d \in Observe("describe_load_balancers"), f \in FaultsAt("describe_load_balancers", cursor) :
         LET o == PageOutcome("describe_load_balancers", d, f)
         IN /\ Advance("describe_load_balancers", d, o, "amis")
            /\ lb_data' = Returned(o, lb_data)
    /\ UNCHANGED << instances, vpc_data, ami_data >>

CollectAmis ==
    /\ pc = "amis"
    /\ \E d \in Observe("describe_images"), f \in FaultsAt("describe_images", cursor) :
         LET o == PageOutcome("describe_images", d, f)
         IN /\ Advance("describe_images", d, o, "render")
            /\ ami_data' = Returned(o, ami_data)
    /\ UNCHANGED << instances, vpc_data, lb_data >>

(***************************************************************************)
(* home: render_template_string.                                           *)
(***************************************************************************)
\* {{ value }}: None is rendered as the text "None".
Cell(rec, field) ==
    LET x == rec.v[field] IN IF x.t = "none" THEN Str("None") ELSE x

\* Variant: the "none found" row is not guarded by the length test.
Table_NoneRowAlways(data, fields, none_row) ==
    [rows |-> [i \in 1..Len(data.v) |->
                 [j \in 1..Len(fields) |-> Cell(data.v[i], fields[j])]],
     none |-> <<none_row>>]

Table(data, fields, none_row) ==
    [rows |-> [i \in 1..Len(data.v) |->
                 [j \in 1..Len(fields) |-> Cell(data.v[i], fields[j])]],
     none |-> IF Len(data.v) = 0 THEN <<none_row>> ELSE <<>>]

\* Variant: account and caller handed to the template the wrong way round.
Dashboard_Swapped(acc, caller, instance_data, vpcs, lbs, amis) ==
    [kind |-> "dashboard", region |-> REGION, account |-> caller, arn |-> acc,
     instance_table |-> Table(instance_data, <<"ID", "State", "Type", "Public IP">>,
                              "No running instances."),
     vpc_table |-> Table(vpcs, <<"VPC ID", "CIDR">>, "No VPCs found."),
     lb_table |-> Table(lbs, <<"LB Name", "DNS Name">>, "No load balancers found."),
     ami_table |-> Table(amis, <<"AMI ID", "Name">>, "No AMIs found.")]

Dashboard(acc, caller, instance_data, vpcs, lbs, amis) ==
    [kind |-> "dashboard", region |-> REGION, account |-> acc, arn |-> caller,
     instance_table |-> Table(instance_data, <<"ID", "State", "Type", "Public IP">>,
                              "No running instances."),
     vpc_table |-> Table(vpcs, <<"VPC ID", "CIDR">>, "No VPCs found."),
     lb_table |-> Table(lbs, <<"LB Name", "DNS Name">>, "No load balancers found."),
     ami_table |-> Table(amis, <<"AMI ID", "Name">>, "No AMIs found.")]

\* Variant: the failure is swallowed and the lists gathered so far are shown.
HomeExcept_Partial ==
    /\ pc = "home_except"
    /\ pc' = "done"
    /\ response' = MkResponse(200,
          Dashboard(account, arn,
                    IF instances = PyNone THEN EmptyList ELSE instances,
                    IF vpc_data = PyNone THEN EmptyList ELSE vpc_data,
                    IF lb_data = PyNone THEN EmptyList ELSE lb_data,
                    IF ami_data = PyNone THEN EmptyList ELSE ami_data))
    /\ UNCHANGED << eval, outage, served, API_KEY, provider, header, account, arn, cursor, items,
                    results, raised, log, calls >>

\* Variant: the failure is never answered; the request hangs.
HomeExcept_Hanging ==
    /\ pc = "home_except"
    /\ pc' = "home_except"
    /\ UNCHANGED << eval, outage, served, API_KEY, provider, header, account, arn,
                    cursor, items, results, raised, response, log, calls >>

\* The except clause of home's second try block; an exception it does not
\* name leaves home and Flask answers with its own error page.
HomeExcept ==
    /\ pc = "home_except"
    /\ pc' = "done"
    /\ response' =
         IF Catches(raised.type, AggregationHandlers)
         THEN Abort(502, "Failed to query AWS APIs. Please try again later.")
         ELSE UncaughtPage
    /\ UNCHANGED << eval, outage, served, API_KEY, provider, header, account, arn, cursor, items,
                    results, raised, log, calls >>

(***************************************************************************)
(* home: the dashboard is rendered and returned.                           *)
(***************************************************************************)
Render ==
    /\ pc = "render"
    /\ pc' = "done"
    /\ response' = MkResponse(200, Dashboard(account, arn, instances, vpc_data,
                                             lb_data, ami_data))
    /\ UNCHANGED << eval, outage, served, API_KEY, provider, header, account, arn, cursor, items,
                    results, raised, log, calls >>

(***************************************************************************)
(* The response is sent and everything request-scoped is discarded.        *)
(* Between two requests the provider-side state may change in any way.     *)
(***************************************************************************)
Respond ==
    /\ pc = "done"
    /\ pc' = "idle"
    /\ provider' = [op \in Ops |-> Unobserved]
    /\ header' = HeaderAbsent
    /\ account' = PyNone /\ arn' = PyNone
    /\ cursor' = PyNone
    /\ items' = <<>>
    /\ instances' = PyNone /\ vpc_data' = PyNone /\ lb_data' = PyNone /\ ami_data' = PyNone
    /\ raised' = NoException
    /\ response' = NoResponse
    /\ log' = <<>>
    /\ calls' = <<>>
    /\ UNCHANGED << eval, outage, served, API_KEY >>

Next ==
    \/ \E h \in Headers : Request(h)
    \/ RequireApiKey
    \/ FetchIdentity
    \/ CollectInstances
    \/ CollectVpcs
    \/ CollectLoadBalancers
    \/ CollectAmis
    \/ HomeExcept
    \/ Render
    \/ Respond

Spec == Init /\ [][Next]_vars

(***************************************************************************)
(* The functions of the program on their own: _paginate's handling of a    *)
(* page for any result_keys path, and the four field projections, applied  *)
(* to arguments of every shape.                                            *)
(***************************************************************************)
NotApplied == [t |-> "not-applied"]

\* Values a response may hold under a key.
LeafValues == {PyNone, Str("x"), EmptyList, List(<<Str("x")>>), EmptyDict}
NestedValues == LeafValues \cup {Dict("Instances" :> x) : x \in LeafValues}
AnyPages == {EmptyDict} \cup {Dict("Reservations" :> x) : x \in NestedValues}
KeyPaths == NonEmptySeqsUpTo({"Reservations", "Instances"}, MaxPathLen)

\* Raw records: every upstream field missing, null or set.
FieldStates == {"missing", "null", "set"}
RawField(k, st) ==
    IF st = "null" THEN PyNone
    ELSE IF st = "set" THEN Str("v")
    ELSE IF st = "empty" THEN EmptyDict
    ELSE IF st = "null-name" THEN Dict("Name" :> PyNone)
    ELSE Dict("Name" :> Str("running"))
RawFrom(assign) ==
    Dict([k \in {f \in DOMAIN assign : assign[f] # "missing"} |-> RawField(k, assign[k])])
RawRecords(fn) ==
    IF fn = "_collect_instances"
      THEN {RawFrom(("InstanceId" :> a) @@ ("InstanceType" :> b)
                    @@ ("PublicIpAddress" :> c) @@ ("State" :> d)) :
              a \in FieldStates, b \in FieldStates, c \in FieldStates,
              d \in {"missing", "null", "empty", "null-name", "named"}}
    ELSE IF fn = "_collect_vpcs"
      THEN {RawFrom(("VpcId" :> a) @@ ("CidrBlock" :> b)) :
              a \in FieldStates, b \in FieldStates}
    ELSE IF fn = "_collect_load_balancers"
      THEN {RawFrom(("LoadBalancerName" :> a) @@ ("DNSName" :> b)) :
              a \in FieldStates, b \in FieldStates}
    ELSE {RawFrom(("ImageId" :> a) @@ ("Name" :> b)) :
              a \in FieldStates, b \in FieldStates}

RecordFields(fn) ==
    IF fn = "_collect_instances" THEN {"ID", "State", "Type", "Public IP"}
    ELSE IF fn = "_collect_vpcs" THEN {"VPC ID", "CIDR"}
    ELSE IF fn = "_collect_load_balancers" THEN {"LB Name", "DNS Name"}
    ELSE {"AMI ID", "Name"}

InitEval ==
    /\ API_KEY = KeyUnset
    /\ provider = [op \in Ops |-> Unobserved]
    /\ pc = "eval"
    /\ header = HeaderAbsent
    /\ account = PyNone /\ arn = PyNone
    /\ cursor = PyNone
    /\ items = <<>>
    /\ instances = PyNone /\ vpc_data = PyNone /\ lb_data = PyNone /\ ami_data = PyNone
    /\ raised = NoException
    /\ response = NoResponse
    /\ log = <<>>
    /\ calls = <<>>
    /\ outage = Transient
    /\ served = NothingServed
    /\ \/ \E page \in AnyPages, path \in KeyPaths :
            eval = [fn |-> "_paginate", page |-> page, result_keys |-> path,
                    ret |-> NotApplied]
       \/ \E fn \in Collectors : \E raw \in RawRecords(fn) :
            eval = [fn |-> fn, raw |-> raw, ret |-> NotApplied]

ApplyPaginate ==
    /\ pc = "eval" /\ eval.fn = "_paginate" /\ eval.ret = NotApplied
    /\ eval' = [eval EXCEPT !.ret = PaginatePage(eval.page, eval.result_keys)]
    /\ UNCHANGED << outage, served, API_KEY, provider, pc, header, account, arn,
                    cursor, items, results, raised, response, log, calls >>

ApplyRecord ==
    /\ pc = "eval" /\ eval.fn \in Collectors /\ eval.ret = NotApplied
    /\ eval' = [eval EXCEPT !.ret = RecordOf(eval.fn, eval.raw)]
    /\ UNCHANGED << outage, served, API_KEY, provider, pc, header, account, arn,
                    cursor, items, results, raised, response, log, calls >>

NextEval == ApplyPaginate \/ ApplyRecord

SpecEval == InitEval /\ [][NextEval]_vars

(***************************************************************************)
(* Vocabulary of the properties.                                           *)
(***************************************************************************)
Done == pc = "done"
KeyConfigured == API_KEY.set /\ API_KEY.v # <<>>
KeyCheckPassed ==
    /\ KeyConfigured
    /\ header.present /\ header.v = API_KEY.v
    /\ IsAscii(API_KEY.v)

IsSetupNeeded == response.status = 200 /\ response.body = SETUP_HTML
IsReady == response.status = 200 /\ response.body.kind = "dashboard"
IsError == response.status \in 500..599 /\ response.body.kind = "error"

CallsOf(operation) == SelectSeq(calls, LAMBDA c : c.op = operation)
Failed(operation) == \E i \in 1..Len(calls) : calls[i].op = operation /\ calls[i].outcome # "ok"
Succeeded(operation) ==
    /\ \E i \in 1..Len(calls) : calls[i].op = operation
    /\ ~Failed(operation)
Aggregations == Ops \ {"get_caller_identity"}

ResultOf(operation) ==
    IF operation = "describe_instances" THEN instances
    ELSE IF operation = "describe_vpcs" THEN vpc_data
    ELSE IF operation = "describe_load_balancers" THEN lb_data
    ELSE ami_data

\* The records of all the pages the provider holds, in page order.
RECURSIVE AllRecords(_, _)
AllRecords(operation, pages) ==
    IF pages = <<>> THEN <<>>
    ELSE (IF operation = "describe_vpcs" THEN VpcRecords(Head(pages)).v
          ELSE PageRecords(operation, Head(pages).v[ListKey(operation)].v).v)
         \o AllRecords(operation, Tail(pages))

\* Where the path leads; a key that is not there leads to the empty list.
RECURSIVE Walk(_, _)
Walk(data, path) ==
    IF path = <<>> THEN data
    ELSE IF data.t = "dict" /\ Head(path) \in DOMAIN data.v
      THEN Walk(data.v[Head(path)], Tail(path))
    ELSE EmptyList

RowsMatch(table, data, fields) ==
    /\ Len(table.rows) = Len(data.v)
    /\ \A i \in 1..Len(data.v) : \A j \in 1..Len(fields) :
         table.rows[i][j] = data.v[i].v[fields[j]]

(***************************************************************************)
(* C1: a request that passed the key check and whose identity check fails  *)
(* (no credentials, rejected credentials, service or transport error)      *)
(* ends with status 200 and the setup page, after that one provider call.  *)
(***************************************************************************)
C1_IdentityFailureGivesSetupPage ==
    (Done /\ Failed("get_caller_identity")) =>
        /\ IsSetupNeeded
        /\ Len(calls) = 1
        /\ KeyCheckPassed

C1_Witness ==
    /\ Done
    /\ calls = <<Call("get_caller_identity", PyNone, "BotoCoreError")>>
    /\ IsSetupNeeded

(***************************************************************************)
(* C2: when the identity check succeeded and a provider call of one of the *)
(* four aggregations fails, the request ends with a 5xx status and an      *)
(* error body: no table, not even of the aggregations that had succeeded.  *)
(***************************************************************************)
C2_AggregationFailureGivesError ==
    (Done /\ \E op \in Aggregations : Failed(op)) =>
        /\ Succeeded("get_caller_identity")
        /\ IsError
        /\ response.body = [kind |-> "error",
                            message |-> "Failed to query AWS APIs. Please try again later."]

C2_Witness ==
    /\ Done
    /\ Failed("describe_images")
    /\ instances # PyNone /\ Len(instances.v) >= 1
    /\ response.status = 502

(***************************************************************************)
(* C3: a request ends Ready exactly when the key check passed, the         *)
(* identity check succeeded and the four aggregations succeeded; the page  *)
(* then shows the identity resolved in this request and, row by row, the   *)
(* four lists collected in this request.                                   *)
(***************************************************************************)
C3_ReadyIffAllSucceeded ==
    Done =>
        /\ IsReady <=> /\ KeyCheckPassed
                       /\ Succeeded("get_caller_identity")
                       /\ \A op \in Aggregations : Succeeded(op)
        /\ IsReady =>
             /\ response.body.account =
                  Get(provider["get_caller_identity"].whoami, "Account", Str("unknown"))
             /\ response.body.arn =
                  Get(provider["get_caller_identity"].whoami, "Arn", Str("unknown"))
             /\ RowsMatch(response.body.instance_table, instances,
                          <<"ID", "State", "Type", "Public IP">>)
             /\ RowsMatch(response.body.vpc_table, vpc_data, <<"VPC ID", "CIDR">>)
             /\ RowsMatch(response.body.lb_table, lb_data, <<"LB Name", "DNS Name">>)
             /\ RowsMatch(response.body.ami_table, ami_data, <<"AMI ID", "Name">>)

C3_Witness ==
    /\ Done /\ IsReady
    /\ response.body.account = Str("123456789012")
    /\ Len(response.body.instance_table.rows) = 1
    /\ Len(response.body.lb_table.rows) = 1
    /\ Len(response.body.vpc_table.rows) = 0

(***************************************************************************)
(* C4: with a secret configured, a request whose X-API-Key header is       *)
(* missing or differs from the secret ends with status 401.                *)
(***************************************************************************)
C4_MismatchGives401 ==
    (Done /\ KeyConfigured /\ (~header.present \/ header.v # API_KEY.v)) =>
        response.status = 401

(***************************************************************************)
(* C5: when no secret is configured (unset or empty) every request ends    *)
(* with status 503 whatever its header, and home is never entered: no      *)
(* provider call is made.                                                  *)
(***************************************************************************)
C5_NoSecretGives503 ==
    ~KeyConfigured =>
        /\ pc \in {"idle", "before_request", "done"}
        /\ calls = <<>>
        /\ Done => response = Abort(503, "ROLLING_API_KEY is not set.")

C5_Witness ==
    /\ Done
    /\ API_KEY = [set |-> TRUE, v |-> <<>>]
    /\ header = [present |-> TRUE, v |-> <<>>]
    /\ response.status = 503

(***************************************************************************)
(* C6: once a paginated aggregation has returned, its list holds the       *)
(* records of all N pages the provider holds, in page order, and exactly   *)
(* N calls were issued for it: the first without a cursor, each later one  *)
(* with the cursor of the page before, none after the page without cursor. *)
(***************************************************************************)
C6_AllPagesInOrder ==
    \A op \in PaginatedOps :
        ResultOf(op) # PyNone =>
            /\ ResultOf(op).v = AllRecords(op, provider[op].v)
            /\ Len(CallsOf(op)) = Len(provider[op].v)
            /\ \A k \in 1..Len(CallsOf(op)) :
                 CallsOf(op)[k].token = IF k = 1 THEN PyNone ELSE Tok(k)

C6_Witness ==
    /\ lb_data # PyNone
    /\ Len(provider["describe_load_balancers"].v) = 2
    /\ Len(CallsOf("describe_load_balancers")) = 2
    /\ Len(lb_data.v) = 2
    /\ lb_data.v[1].v["LB Name"] = Name("lb-", 1, 1)
    /\ lb_data.v[2].v["LB Name"] = Name("lb-", 2, 1)

(***************************************************************************)
(* C7: when a provider call of an aggregation fails, on the first page or  *)
(* a later one, the aggregation returns no list (what earlier pages gave   *)
(* is dropped), the failure is logged under the aggregation's message and  *)
(* the provider's error itself reaches home, which renders no table.       *)
(***************************************************************************)
C7_FaultAbortsCollection ==
    \A op \in Aggregations :
        Failed(op) =>
            /\ ResultOf(op) = PyNone
            /\ items = <<>>
            /\ raised = [type |-> calls[Len(calls)].outcome, op |-> op]
            /\ calls[Len(calls)].op = op
            /\ log # <<>> /\ log[Len(log)] = ErrorRecord(op, raised)
            /\ pc \in {"home_except", "done"}
            /\ Done => ~IsReady

C7_Witness ==
    /\ pc = "home_except"
    /\ Len(CallsOf("describe_instances")) = 2
    /\ calls[Len(calls)] = Call("describe_instances", Tok(2), "ClientError")
    /\ Resources("Reservations", <<provider["describe_instances"].v[1]>>) >= 1
    /\ instances = PyNone

(***************************************************************************)
(* C8: for every page and every result_keys path, _paginate does not       *)
(* raise, and when the path does not lead to a list the page yields no     *)
(* item and the diagnostic is logged.                                      *)
(***************************************************************************)
C8_PaginateNeverRaises ==
    (eval.fn = "_paginate" /\ eval.ret # NotApplied) =>
        /\ eval.ret.raised = "none"
        /\ Walk(eval.page, eval.result_keys).t # "list" =>
             eval.ret.yielded = <<>> /\ eval.ret.debug

(***************************************************************************)
(* C9: every record a projection produces has all the fields of its kind,  *)
(* none of them null, whether the upstream field is missing or null.       *)
(***************************************************************************)
C9_AllFieldsNonNull ==
    (eval.fn \in Collectors /\ eval.ret # NotApplied /\ eval.ret.t = "dict") =>
        /\ DOMAIN eval.ret.v = RecordFields(eval.fn)
        /\ \A k \in RecordFields(eval.fn) : eval.ret.v[k].t = "str"

(***************************************************************************)
(* C10: once the network aggregation has returned, its list holds the      *)
(* networks of all pages the provider holds, in page order.                *)
(***************************************************************************)
C10_AllNetworkPages ==
    vpc_data # PyNone =>
        vpc_data.v = AllRecords("describe_vpcs", provider["describe_vpcs"].v)

(***************************************************************************)
(* C11: every request ends in exactly one of the categorized outcomes:     *)
(* 401 Unauthorized, 503 for a missing secret, the setup page, a 5xx error *)
(* with the generic message, or the dashboard; no exception leaves a       *)
(* handler uncaught, so Flask's own error page is never the response.      *)
(***************************************************************************)
IsUnauthorized == response = Abort(401, "Unauthorized.")
IsMisconfigured == response = Abort(503, "ROLLING_API_KEY is not set.")
IsGenericError ==
    /\ IsError
    /\ response.body.message = "Failed to query AWS APIs. Please try again later."

C11_EveryOutcomeCategorized ==
    Done =>
        /\ response # UncaughtPage
        /\ Cardinality({k \in 1..5 :
                          << IsUnauthorized, IsMisconfigured, IsSetupNeeded,
                             IsGenericError, IsReady >>[k]}) = 1

(***************************************************************************)
(* C12: no retries.  Within a request the identity operation is called at  *)
(* most once, no page of an enumeration is asked for twice, and a failed   *)
(* call is the last provider call of the request: nothing is re-issued and *)
(* the request is on its way to its response.                              *)
(***************************************************************************)
C12_NoRetries ==
    /\ Len(CallsOf("get_caller_identity")) <= 1
    /\ \A i, j \in 1..Len(calls) :
         (i < j /\ calls[i].op = calls[j].op) => calls[i].token # calls[j].token
    /\ \A i \in 1..Len(calls) :
         calls[i].outcome # "ok" =>
             /\ i = Len(calls)
             /\ pc \in {"home_except", "done"}

C12_Witness ==
    /\ Done
    /\ Len(calls) >= 3
    /\ calls[Len(calls) - 1].op = calls[Len(calls)].op
    /\ calls[Len(calls) - 1].outcome = "ok"
    /\ calls[Len(calls)].outcome = "BotoCoreError"

(***************************************************************************)
(* C13: the system only reads from the provider.  Every provider call of   *)
(* every request is the identity check or one of the four enumerations,    *)
(* and what the provider holds for an operation is the same after a call   *)
(* as it was when the request first saw it.                                *)
(***************************************************************************)
ReadOperations ==
    {"get_caller_identity", "describe_instances", "describe_vpcs",
     "describe_load_balancers", "describe_images"}

OnlyReadCalls == \A i \in 1..Len(calls) : calls[i].op \in ReadOperations

ProviderLeftUnchanged ==
    pc \notin {"idle", "done"} =>
        \A op \in DOMAIN provider :
            provider[op] # Unobserved => provider'[op] = provider[op]

C13_ReadOnly == []OnlyReadCalls /\ [][ProviderLeftUnchanged]_vars

C13_Witness ==
    /\ Done /\ IsReady
    /\ {calls[i].op : i \in 1..Len(calls)} = ReadOperations
    /\ Len(calls) = 6

(***************************************************************************)
(* C14: on the dashboard each of the four tables has one data row per      *)
(* record of its list, and its "none found" row exactly once when the list *)
(* is empty and not at all otherwise.                                      *)
(***************************************************************************)
TableShows(table, data, none_row) ==
    /\ Len(table.rows) = Len(data.v)
    /\ table.none = IF Len(data.v) = 0 THEN <<none_row>> ELSE <<>>

C14_RowsAndNoneRows ==
    (Done /\ IsReady) =>
        /\ TableShows(response.body.instance_table, instances, "No running instances.")
        /\ TableShows(response.body.vpc_table, vpc_data, "No VPCs found.")
        /\ TableShows(response.body.lb_table, lb_data, "No load balancers found.")
        /\ TableShows(response.body.ami_table, ami_data, "No AMIs found.")

C14_Witness ==
    /\ Done /\ IsReady
    /\ vpc_data = EmptyList
    /\ response.body.vpc_table = [rows |-> <<>>, none |-> <<"No VPCs found.">>]
    /\ Len(response.body.ami_table.rows) = 2
    /\ response.body.ami_table.none = <<>>

(***************************************************************************)
(* Requests served one after another against provider-side state that      *)
(* does not change: what the provider holds and which of its calls fail    *)
(* are fixed for the whole behaviour.  One earlier request that reached    *)
(* home is remembered with its response.  Nothing is cleared between       *)
(* requests but the response and the records of the request: a handler     *)
(* that read what an earlier request left behind would show it here.       *)
(***************************************************************************)
\* What an account may hold: each enumeration has the same number of pages
\* and the same number of resources on every page.
Account(sts, pages, each) ==
    [op \in Ops |->
       IF op = "get_caller_identity" THEN sts
       ELSE IF op = "describe_instances"
         THEN [t |-> "pages", v |-> InstancePages([p \in 1..pages |-> <<each>>])]
       ELSE [t |-> "pages", v |-> ItemPages(op, [p \in 1..pages |-> each])]]

Accounts ==
    {Account(sts, pages, each) :
       sts \in ProviderData("get_caller_identity", 0, 0),
       pages \in 1..(1 + MaxExtraPages), each \in 0..MaxItems}

InitRepeat ==
    /\ API_KEY \in ConfiguredKeys
    /\ provider \in Accounts
    /\ pc = "idle"
    /\ header = HeaderAbsent
    /\ account = PyNone /\ arn = PyNone
    /\ cursor = PyNone
    /\ items = <<>>
    /\ instances = PyNone /\ vpc_data = PyNone /\ lb_data = PyNone /\ ami_data = PyNone
    /\ raised = NoException
    /\ response = NoResponse
    /\ log = <<>>
    /\ calls = <<>>
    /\ eval = NoEval
    /\ outage \in Outages
    /\ served = NothingServed

RespondUnchanged ==
    /\ pc = "done"
    /\ pc' = "idle"
    /\ \/ served' = served
       \/ /\ served = NothingServed /\ calls # <<>>
          /\ served' = [header |-> header, response |-> response]
    /\ header' = HeaderAbsent
    /\ response' = NoResponse
    /\ log' = <<>>
    /\ calls' = <<>>
    /\ UNCHANGED << eval, outage, API_KEY, provider, account, arn, cursor, items,
                    results, raised >>

NextRepeat ==
    \/ \E h \in Headers : Request(h)
    \/ RequireApiKey
    \/ FetchIdentity
    \/ CollectInstances
    \/ CollectVpcs
    \/ CollectLoadBalancers
    \/ CollectAmis
    \/ HomeExcept
    \/ Render
    \/ RespondUnchanged

SpecRepeat == InitRepeat /\ [][NextRepeat]_vars

(***************************************************************************)
(* C15: a request with the same header as an earlier one, served against   *)
(* unchanged provider-side state, is given the same response (the same     *)
(* outcome and the same tables: same records, order and field values),     *)
(* whatever requests were served before, between or after the two.  The    *)
(* response of a request the key check rejects is that of the secret and   *)
(* the header alone.                                                       *)
(***************************************************************************)
C15_SameRequestSameResponse ==
    Done =>
        /\ (served # NothingServed /\ served.header = header) =>
               response = served.response
        /\ calls = <<>> =>
               response = Abort(require_api_key(API_KEY, header).status,
                                require_api_key(API_KEY, header).description)

C15_Witness ==
    /\ Done /\ IsReady
    /\ served # NothingServed /\ served.header = header
    /\ response = served.response
    /\ Len(response.body.instance_table.rows) >= 1
    /\ instances # PyNone /\ ami_data # PyNone

(***************************************************************************)
(* C16: when the identity check fails, what the request records keeps the  *)
(* kind of the failure: a log record or the error value of the response    *)
(* names the class of the error (no credentials, or credentials rejected), *)
(* so the two kinds of failure leave different records.                    *)
(***************************************************************************)
C16_IdentityFailureClassRecorded ==
    (Done /\ Failed("get_caller_identity")) =>
        \/ \E i \in 1..Len(log) : log[i].exc_info.type = calls[1].outcome
        \/ /\ "error" \in DOMAIN response.body
           /\ response.body.error = calls[1].outcome

(***************************************************************************)
(* The instance aggregation on its own: home has passed the key check and  *)
(* resolved the identity and is about to call _collect_instances, and the  *)
(* account holds instances in up to MaxResHeld reservations on a page.     *)
(***************************************************************************)
HeldInstances ==
    {[t |-> "pages", v |-> InstancePages(sh)] :
       sh \in UNION {ReservationPagesOf(k, MaxItems, MaxResHeld) :
                       k \in 1..(1 + MaxExtraPages)}}

InitInstances ==
    /\ API_KEY = [set |-> TRUE, v |-> <<97>>]
    /\ header = [present |-> TRUE, v |-> <<97>>]
    /\ \E sts \in {d \in ProviderData("get_caller_identity", 0, 0) : d.creds = "valid"} :
         /\ \E held \in HeldInstances :
              provider = [op \in Ops |->
                            IF op = "get_caller_identity" THEN sts
                            ELSE IF op = "describe_instances" THEN held
                            ELSE Unobserved]
         /\ account = fetch_identity(sts.whoami).v[1]
         /\ arn = fetch_identity(sts.whoami).v[2]
    /\ pc = "instances"
    /\ cursor = PyNone
    /\ items = <<>>
    /\ instances = PyNone /\ vpc_data = PyNone /\ lb_data = PyNone /\ ami_data = PyNone
    /\ raised = NoException
    /\ response = NoResponse
    /\ log = <<>>
    /\ calls = <<Call("get_caller_identity", PyNone, "ok")>>
    /\ eval = NoEval
    /\ outage = Transient
    /\ served = NothingServed

NextInstances == CollectInstances \/ HomeExcept

SpecInstances == InitInstances /\ [][NextInstances]_vars

(***************************************************************************)
(* C17: once the instance aggregation has returned, its result is a list   *)
(* (the empty list when there is no instance) with one record per instance *)
(* the provider holds, in the provider's order: by page, then by           *)
(* reservation within the page, then by instance within the reservation.   *)
(***************************************************************************)
InstancesOfPage(page) ==
    Concat([r \in 1..Len(page.v["Reservations"].v) |->
              page.v["Reservations"].v[r].v["Instances"]])

InstancesInOrder(pages) ==
    Concat([p \in 1..Len(pages) |-> List(InstancesOfPage(pages[p]))])

C17_InstancesInProviderOrder ==
    /\ pc \in {"vpcs", "lbs", "amis", "render"} => instances # PyNone
    /\ instances # PyNone =>
         LET held == InstancesInOrder(provider["describe_instances"].v)
         IN /\ instances.t = "list"
            /\ Len(instances.v) = Len(held)
            /\ \A k \in 1..Len(held) :
                 instances.v[k].v["ID"] = held[k].v["InstanceId"]

C17_Witness ==
    /\ pc = "vpcs"
    /\ Len(provider["describe_instances"].v) = 1
    /\ Len(provider["describe_instances"].v[1].v["Reservations"].v) = 2
    /\ Len(instances.v) = 2
    /\ instances.v[1].v["ID"] = Name("i-", 1, 11)
    /\ instances.v[2].v["ID"] = Name("i-", 1, 21)

(***************************************************************************)
(* Liveness: a request that has arrived is handled to its end.  Flask runs *)
(* the hook and the handler to completion: each of their steps is taken    *)
(* once it can be.  For the steps of the four aggregations weak fairness   *)
(* is written out: such a step can be taken exactly while an aggregation   *)
(* is running, because the provider answers every call with a page or an   *)
(* error (CallReturns), and it is the step that issues a provider call.    *)
(***************************************************************************)
Light == RequireApiKey \/ FetchIdentity \/ HomeExcept \/ Render
Collecting == pc \in {"instances", "vpcs", "lbs", "amis"}
IssuesCall == Collecting /\ Len(calls') = Len(calls) + 1

SpecLive ==
    /\ Spec
    /\ WF_vars(Light)
    /\ <>[]Collecting => []<><<IssuesCall>>_vars

StageOf(operation) ==
    IF operation = "describe_instances" THEN "instances"
    ELSE IF operation = "describe_vpcs" THEN "vpcs"
    ELSE IF operation = "describe_load_balancers" THEN "lbs"
    ELSE "amis"

CallReturns ==
    \A op \in Aggregations :
        pc = StageOf(op) => Observe(op) # {} /\ FaultsAt(op, cursor) # {}

(***************************************************************************)
(* C18: every request that arrives reaches its response, and while the     *)
(* provider's last page came with a cursor the enumeration goes on: the    *)
(* next step asks for the next page with that cursor, however many pages   *)
(* there are.                                                              *)
(***************************************************************************)
KeepsFetching ==
    \A op \in PaginatedOps :
        (pc = StageOf(op) /\ cursor.t = "token") =>
            /\ Len(calls') = Len(calls) + 1
            /\ calls'[Len(calls')].op = op
            /\ calls'[Len(calls')].token = cursor

C18_RequestsTerminate ==
    /\ []CallReturns
    /\ [][KeepsFetching]_vars
    /\ (pc = "before_request") ~> Done

C18_Witness ==
    /\ Done /\ IsReady
    /\ Len(provider["describe_images"].v) = 1 + MaxExtraPages
    /\ Len(CallsOf("describe_images")) = 1 + MaxExtraPages

(***************************************************************************)
(* C19: the provider calls of a request come in the order identity,        *)
(* instances, networks, load balancers, images, and a call of a later      *)
(* stage is issued only when every earlier stage has succeeded and         *)
(* returned: after the first failing stage there is no further call.       *)
(***************************************************************************)
StageRank(operation) ==
    IF operation = "get_caller_identity" THEN 1
    ELSE IF operation = "describe_instances" THEN 2
    ELSE IF operation = "describe_vpcs" THEN 3
    ELSE IF operation = "describe_load_balancers" THEN 4
    ELSE 5

StageReturned(operation) ==
    IF operation = "get_caller_identity" THEN account # PyNone
    ELSE ResultOf(operation) # PyNone

C19_StagesInOrder ==
    /\ \A i, j \in 1..Len(calls) :
         i < j => StageRank(calls[i].op) <= StageRank(calls[j].op)
    /\ \A j \in 1..Len(calls) : \A op \in Ops :
         StageRank(op) < StageRank(calls[j].op) =>
             Succeeded(op) /\ StageReturned(op)

C19_Witness ==
    /\ Done
    /\ Len(calls) = 2
    /\ calls[1] = Call("get_caller_identity", PyNone, "ok")
    /\ calls[2] = Call("describe_instances", PyNone, "ClientError")
    /\ response.status = 502

(***************************************************************************)
(* C20: the key check comes before any provider interaction.  No provider  *)
(* call is issued before the check has passed, and a request rejected with *)
(* 401 or 503 ends without a single provider call and without having seen  *)
(* anything of the provider: credentials and availability play no part.    *)
(***************************************************************************)
C20_KeyCheckBeforeProvider ==
    /\ pc \in {"idle", "before_request"} => calls = <<>>
    /\ (Done /\ response.status \in {401, 503}) =>
         /\ calls = <<>>
         /\ \A op \in Ops : provider[op] = Unobserved
         /\ log = <<>>
         /\ ~KeyCheckPassed

C20_Witness ==
    /\ Done
    /\ response = Abort(401, "Unauthorized.")
    /\ API_KEY = [set |-> TRUE, v |-> <<97>>]
    /\ header = [present |-> TRUE, v |-> <<97, 97>>]
    /\ calls = <<>>
====
